---- MODULE Spec2Model ----
(***************************************************************************)
(* Model of the finance tracker: the bank-to-Notion ingestion script       *)
(* (notion.py), the Drive CSV snapshot (drive.py) and the Streamlit        *)
(* dashboard (app.py).                                                     *)
(*                                                                         *)
(* Text values whose structure the code inspects (transaction ids,         *)
(* categories, dates) are sequences of tokens, so that str.split,          *)
(* strptime and strftime are computed and not assumed.  Other text (names, *)
(* descriptions, account names) is atomic.                                 *)
(***************************************************************************)
EXTENDS Integers, Sequences, FiniteSets, TLC

VARIABLES
    ledger,            \* the Notion database: the sequence of its pages
    pcI,               \* position of the ingestion script (notion.py __main__)
    transactions,      \* result of get_transactions_from_woob
    existing_ids,      \* send_transactions_to_notion: ids read from Notion
    new_transactions,  \* send_transactions_to_notion: records to create
    idx,               \* send_transactions_to_notion: position of the for loop
    success,           \* send_transactions_to_notion: success counter
    attempts,          \* log of the notion.pages.create calls of the current run
    ret,               \* value returned by send_transactions_to_notion
    drive,             \* transactions.csv in the Drive folder
    memo,              \* st.cache_data store of get_transactions, by argument
    ready,             \* the last script run rendered the sidebar (reload button)
    rerun,             \* st.rerun() was requested and the rerun has not run yet
    calls,             \* log of the get_transactions calls of the last script run
    reload,            \* outcome of the last get_transactions_from_notion(True)
    lastLoad,          \* history: when get_transactions() last ran its body
    df,                \* main: the table get_transactions() returned
    periode,           \* sidebar: "Type de periode"
    periode_specifique, \* sidebar: "Periode"
    lissage,           \* sidebar: "Lissage Mensuel"
    groupe,            \* sidebar: "Groupe"
    selected_categories, \* sidebar: the checked categories
    facteur_lissage,   \* main: the smoothing divisor
    df_filtered,       \* main: df after the category filter
    df_categories,     \* main: the category breakdown (rows in no given order)
    df_totaux,         \* main: the period totals
    env,               \* which configuration values are set (and not empty)
    started,           \* outcome of each program's module-level code
    runtime,           \* configuration values found missing after startup
    session_state,     \* st.session_state of the browser session
    submitted          \* history: the text last typed in the password field

ingestVars == <<pcI, transactions, existing_ids, new_transactions, idx, success,
                attempts, ret>>
sessionVars == <<drive, memo, ready, rerun, calls, reload, lastLoad>>
aggVars == <<df, periode, periode_specifique, lissage, groupe, selected_categories,
             facteur_lissage, df_filtered, df_categories, df_totaux>>
configVars == <<env, started, runtime>>
gateVars == <<session_state, submitted>>
vars == <<ledger, ingestVars, sessionVars, aggVars, configVars, gateVars>>

----------------------------------------------------------------------------
(* Bounds *)

MaxFetch == 1      \* entries one account's history fetch returns
MaxRows == 3       \* rows of the table the dashboard aggregates
MaxLedger == 4     \* pages in the Notion database
PageSize == 2      \* pages one databases.query response carries
TickStep == 1800   \* seconds that pass in one Tick

(* Program constants *)

TTL == 3600        \* st.cache_data(ttl=3600)

----------------------------------------------------------------------------
(* Values *)

NULL == <<"NULL">>          \* a null cell / an unselected Notion select
COMPTES == <<"PERSO", "JOINT">>

Min(a, b) == IF a < b THEN a ELSE b
\* the element of a one-element set
Only(S) == CHOOSE x \in S : TRUE
Range(s) == {s[i] : i \in 1..Len(s)}

\* the injective sequences over S of length at most n
SeqsNoRep(S, n) ==
    UNION {{s \in [1..k -> S] : \A i, j \in 1..k : i # j => s[i] # s[j]} : k \in 0..n}

RECURSIVE SplitFrom(_, _, _, _)
SplitFrom(s, sep, i, cur) ==
    IF i > Len(s) THEN <<cur>>
    ELSE IF s[i] = sep THEN <<cur>> \o SplitFrom(s, sep, i + 1, <<>>)
    ELSE SplitFrom(s, sep, i + 1, Append(cur, s[i]))

\* str.split(sep): the pieces of s between the occurrences of sep
StrSplit(s, sep) == SplitFrom(s, sep, 1, <<>>)

----------------------------------------------------------------------------
(* The banking aggregator (woob) *)

RawTx(id, date, label, amount, raw) ==
    [id |-> id, date |-> date, label |-> label, category |-> <<"Uncategorized">>,
     amount |-> amount, raw |-> raw]

\* What "woob bank history <account>" can list.  The transfer between the two
\* accounts is listed by both with the same native identifier.
BankHistory(compte) ==
    IF compte = "PERSO"
    THEN {RawTx(<<"A", "@", "bk">>, <<"2024", "-", "01", "-", "05">>, "virement", -20, "VIR joint"),
          RawTx(<<"B", "@", "bk">>, <<"2024", "-", "01", "-", "20">>, "shop", -10, "")}
    ELSE {RawTx(<<"A", "@", "bk">>, <<"2024", "-", "01", "-", "06">>, "virement", 20, "VIR perso")}

\* outcomes of one subprocess.run of woob
SubprocessResults(compte) ==
    {[returncode |-> 0, stdout |-> h] : h \in SeqsNoRep(BankHistory(compte), MaxFetch)}
    \cup {[returncode |-> 1, stdout |-> <<>>]}

WoobRecord(t, compte) ==
    [date |-> t.date, nom |-> t.label, categorie |-> t.category, montant |-> t.amount,
     description |-> t.raw, id |-> StrSplit(t.id, "@")[1], compte |-> compte]

RECURSIVE WoobLoop(_, _, _)
WoobLoop(results, i, acc) ==
    IF i > Len(COMPTES) THEN acc
    ELSE LET r == results[COMPTES[i]]
         IN IF r.returncode # 0 THEN <<>>
            ELSE WoobLoop(results, i + 1,
                          acc \o [k \in 1..Len(r.stdout) |-> WoobRecord(r.stdout[k], COMPTES[i])])

get_transactions_from_woob(results) == WoobLoop(results, 1, <<>>)

----------------------------------------------------------------------------
(* The Notion database (Ledger Source) *)

\* notion.pages.create: the page the properties of send_transaction_to_notion make
CreatedPage(tx) ==
    [Date |-> tx.date, Nom |-> <<tx.nom>>, Categorie |-> NULL, Montant |-> tx.montant,
     Description |-> <<IF tx.description # "" THEN tx.description ELSE "">>,
     ID |-> <<tx.id>>, Compte |-> tx.compte]

\* notion.databases.query: one page of results from start_cursor (0 is None)
DatabasesQuery(db, start_cursor) ==
    LET from == IF start_cursor = 0 THEN 1 ELSE start_cursor
        to == Min(from + PageSize - 1, Len(db))
    IN [results |-> SubSeq(db, from, to),
        has_more |-> to < Len(db),
        next_cursor |-> IF to < Len(db) THEN to + 1 ELSE 0]

\* number of databases.query calls a full pagination of db makes
NumQueries(db) == IF Len(db) = 0 THEN 1 ELSE (Len(db) + PageSize - 1) \div PageSize

\* ids of one response: the first rich_text of "ID Transaction", when there is one
PageIds(results) ==
    {results[i].ID[1] : i \in {j \in 1..Len(results) : results[j].ID # <<>>}}

RECURSIVE ExistingIdsLoop(_, _, _, _, _)
\* the while loop of get_existing_transaction_ids; the failAt-th query raises
ExistingIdsLoop(db, failAt, n, start_cursor, ids) ==
    IF n = failAt THEN [raised |-> TRUE, value |-> {}]
    ELSE LET response == DatabasesQuery(db, start_cursor)
             found == ids \cup PageIds(response.results)
         IN IF response.has_more
            THEN ExistingIdsLoop(db, failAt, n + 1, response.next_cursor, found)
            ELSE [raised |-> FALSE, value |-> found]

get_existing_transaction_ids(db, failAt) == ExistingIdsLoop(db, failAt, 1, 0, {})

\* faulty variant: no filter on the existing ids
NewTransactionsUnfiltered(txs, existing) == txs

\* send_transactions_to_notion: the records that are not yet in Notion
NewTransactions(txs, existing) == SelectSeq(txs, LAMBDA txn : txn.id \notin existing)

\* truthiness of the value send_transaction_to_notion returns: the API response
\* when pages.create succeeded, None when it raised
SuccessAfter(count, created) == IF created THEN count + 1 ELSE count

\* faulty variant: the loop ends at the first failed create
IdxAfterBreak(i, created, n) == IF created THEN i + 1 ELSE n + 1

\* the for loop of send_transactions_to_notion moves on whatever the outcome
IdxAfter(i, created, n) == i + 1

----------------------------------------------------------------------------
(* Normalisation (preprocess_transactions) *)

YearStr == <<"2023", "2024", "2025">>
TwoDigits == <<"01", "02", "03", "04", "05", "06", "07", "08", "09", "10", "11",
               "12", "13", "14", "15", "16", "17", "18", "19", "20", "21", "22",
               "23", "24", "25", "26", "27", "28", "29", "30", "31">>
Digit == <<"1", "2", "3", "4">>

IndexOf(seq, tok) == CHOOSE i \in 1..Len(seq) : seq[i] = tok

\* days of a month of the calendar (2024 is the leap year of YearStr)
DaysInMonth(year, month) ==
    IF month = "02" THEN (IF year = "2024" THEN 29 ELSE 28)
    ELSE IF month \in {"04", "06", "09", "11"} THEN 30
    ELSE 31

\* does the text match "%Y-%m-%d" and name a day of the calendar
ValidDate(s) ==
    /\ Len(s) = 5
    /\ s[2] = "-" /\ s[4] = "-"
    /\ s[1] \in Range(YearStr)
    /\ s[3] \in Range(SubSeq(TwoDigits, 1, 12))
    /\ s[5] \in Range(TwoDigits)
    /\ IndexOf(TwoDigits, s[5]) <= DaysInMonth(s[1], s[3])

\* str.strptime(pl.Date, "%Y-%m-%d")
StrpTime(s) ==
    [year |-> 2022 + IndexOf(YearStr, s[1]), month |-> IndexOf(TwoDigits, s[3]),
     day |-> IndexOf(TwoDigits, s[5])]

\* dt.year().cast(pl.Utf8)
YearText(d) == YearStr[d.year - 2022]

\* faulty variant: the month is divided by four
QuarterByFour(d) == (d.month \div 4) + 1

\* dt.quarter()
Quarter(d) == ((d.month - 1) \div 3) + 1

\* dt.strftime("%Y-%m")
Mois(d) == <<YearText(d), "-", TwoDigits[d.month]>>

\* concat_str([year, "-T", quarter])
Trimestre(d) == <<YearText(d), "-T", Digit[Quarter(d)]>>

Annee(d) == <<YearText(d)>>

\* str.split(" > ").list.first(); null stays null
CategorieParent(categorie) ==
    IF categorie = NULL THEN NULL ELSE StrSplit(categorie, " > ")[1]

\* faulty variant: the second piece, when there is one
CategorieEnfantSecond(categorie) ==
    IF categorie = NULL THEN NULL
    ELSE LET pieces == StrSplit(categorie, " > ") IN pieces[Min(2, Len(pieces))]

\* str.split(" > ").list.last(); null stays null
CategorieEnfant(categorie) ==
    IF categorie = NULL THEN NULL
    ELSE LET pieces == StrSplit(categorie, " > ") IN pieces[Len(pieces)]

DateKey(s) == LET d == StrpTime(s) IN d.year * 10000 + d.month * 100 + d.day

RECURSIVE SortByDateDesc(_)
\* df.sort("date", descending=True)
SortByDateDesc(rows) ==
    IF Len(rows) <= 1 THEN rows
    ELSE Only({SelectSeq(rest, LAMBDA x : DateKey(x.date) > DateKey(rows[1].date))
               \o <<rows[1]>>
               \o SelectSeq(rest, LAMBDA x : DateKey(x.date) <= DateKey(rows[1].date))
               : rest \in {SortByDateDesc(Tail(rows))}})

NormalizedRow(t) ==
    LET d == StrpTime(t.date)
    IN [date |-> t.date, nom |-> t.nom, categorie |-> t.categorie, montant |-> t.montant,
        description |-> t.description, compte |-> t.compte,
        mois |-> Mois(d), trimestre |-> Trimestre(d), annee |-> Annee(d),
        categorie_parent |-> CategorieParent(t.categorie),
        categorie_enfant |-> CategorieEnfant(t.categorie)]

\* dtypes of the date columns of a frame preprocess_transactions built
FreshSchema == [date |-> "Date", mois |-> "String", trimestre |-> "String", annee |-> "String"]

NoneDf == [kind |-> "None", schema |-> FreshSchema, rows |-> <<>>]
Frame(schema, rows) == [kind |-> "df", schema |-> schema, rows |-> rows]

\* pl.DataFrame gives a column whose every value is None the dtype Null
NullColumn(txs) == \A i \in 1..Len(txs) : txs[i].categorie = NULL

\* preprocess_transactions: raises on an empty list (no column "date") and on a
\* date that does not parse.  The source does not fix the polars release, and
\* releases differ on .str.split over a column of dtype Null: some give null
\* (strOnNull), the others raise
preprocess_transactions(txs, strOnNull) ==
    IF Len(txs) = 0 \/ \E i \in 1..Len(txs) : ~ValidDate(txs[i].date)
    THEN [raised |-> TRUE, value |-> NoneDf]
    ELSE IF ~strOnNull /\ NullColumn(txs)
    THEN [raised |-> TRUE, value |-> NoneDf]
    ELSE [raised |-> FALSE,
          value |-> Frame(FreshSchema,
                          SortByDateDesc([i \in 1..Len(txs) |-> NormalizedRow(txs[i])]))]

----------------------------------------------------------------------------
(* The Drive folder (Remote Cache Store) *)

NoFile == [exists |-> FALSE, rows |-> <<>>]

\* df.write_csv: the cells as text, the dtypes are not written
WriteCsv(table) == [exists |-> TRUE, rows |-> table.rows]

\* dtype pl.read_csv infers for a column from its cells
InferDtype(cells) ==
    IF \A c \in cells : Len(c) = 1 /\ c[1] \in Range(YearStr) THEN "Int64" ELSE "String"

\* pl.read_csv: the cells, with inferred dtypes (dates are not parsed)
ReadCsv(file) ==
    LET col(name) == {file.rows[i][name] : i \in 1..Len(file.rows)}
    IN Frame([date |-> InferDtype(col("date")), mois |-> InferDtype(col("mois")),
              trimestre |-> InferDtype(col("trimestre")), annee |-> InferDtype(col("annee"))],
             file.rows)

\* save_to_drive: the file after the call; nothing is written when the service or
\* a request fails (driveUp false)
save_to_drive(file, table, driveUp) == IF driveUp THEN WriteCsv(table) ELSE file

\* load_from_drive: None when the service or a request fails or no file is found
load_from_drive(file, driveUp) ==
    IF ~driveUp THEN NoneDf
    ELSE IF ~file.exists THEN NoneDf
    ELSE ReadCsv(file)

load_transactions_from_csv(file, driveUp) == load_from_drive(file, driveUp)

----------------------------------------------------------------------------
(* Forced reload (get_transactions_from_notion) *)

\* props[...][0] of an empty title or rich_text list raises IndexError
PageRaises(page) == page.Nom = <<>> \/ page.Description = <<>>

\* the dict appended for one page
PageTransaction(page) ==
    [date |-> page.Date, nom |-> page.Nom[1],
     categorie |-> IF page.Categorie # NULL THEN page.Categorie ELSE NULL,
     montant |-> page.Montant, description |-> page.Description[1],
     compte |-> page.Compte]

RECURSIVE ReloadLoop(_, _, _, _, _)
\* the while loop of get_transactions_from_notion; the failAt-th query raises
ReloadLoop(db, failAt, n, start_cursor, acc) ==
    IF n = failAt THEN [raised |-> TRUE, cause |-> "network", value |-> <<>>]
    ELSE LET response == DatabasesQuery(db, start_cursor)
             res == response.results
         IN IF \E i \in 1..Len(res) : PageRaises(res[i])
            THEN [raised |-> TRUE, cause |-> "shape", value |-> <<>>]
            ELSE LET got == acc \o [i \in 1..Len(res) |-> PageTransaction(res[i])]
                 IN IF response.has_more
                    THEN ReloadLoop(db, failAt, n + 1, response.next_cursor, got)
                    ELSE [raised |-> FALSE, cause |-> "none", value |-> got]

\* the polars releases that differ on a reload of db: both kinds when no page of
\* db has a category (the column has dtype Null), one otherwise
StrOnNullOutcomes(db) ==
    IF \A i \in 1..Len(db) : db[i].Categorie = NULL THEN BOOLEAN ELSE {TRUE}

\* get_transactions_from_notion past the force_reload test: the pages of the
\* database, normalised, saved to Drive and returned.  The result is the value
\* returned (or that the call raised), the Drive file after the call and the
\* remote services called
ReloadFromNotion(db, file, failAt, driveUp, strOnNull) ==
    Only({
      IF r.raised
      THEN [raised |-> TRUE, cause |-> r.cause, value |-> NoneDf,
            file |-> file, remote |-> {"ledger"}]
      ELSE Only({
             IF p.raised
             THEN [raised |-> TRUE, cause |-> "normalize", value |-> NoneDf,
                   file |-> file, remote |-> {"ledger"}]
             ELSE [raised |-> FALSE, cause |-> "none", value |-> p.value,
                   file |-> save_to_drive(file, p.value, driveUp),
                   remote |-> {"ledger", "drive"}]
             : p \in {preprocess_transactions(r.value, strOnNull)}})
      : r \in {ReloadLoop(db, failAt, 1, 0, <<>>)}})

\* the read of the snapshot, as a result of get_transactions_from_notion
CsvResult(file, driveUp) ==
    [raised |-> FALSE, cause |-> "none",
     value |-> load_transactions_from_csv(file, driveUp),
     file |-> file, remote |-> {"drive"}]

\* faulty variant: a missing snapshot falls back to the Notion database
get_transactions_from_notion_fallback(force_reload, db, file, failAt, driveUp, strOnNull) ==
    IF ~force_reload /\ CsvResult(file, driveUp).value.kind # "None"
    THEN CsvResult(file, driveUp)
    ELSE ReloadFromNotion(db, file, 0, driveUp, strOnNull)

\* get_transactions_from_notion(force_reload)
get_transactions_from_notion(force_reload, db, file, failAt, driveUp, strOnNull) ==
    IF ~force_reload
    THEN CsvResult(file, driveUp)
    ELSE ReloadFromNotion(db, file, failAt, driveUp, strOnNull)

----------------------------------------------------------------------------
(* The memo of get_transactions (st.cache_data, ttl=3600) *)

NoEntry == [present |-> FALSE, value |-> NoneDf, age |-> 0, old |-> FALSE]

Fresh(e) == e.present /\ e.age < TTL

Store(m, key, v) ==
    [m EXCEPT ![key] = [present |-> TRUE, value |-> v, age |-> 0, old |-> FALSE]]

\* faulty variant: the clear leaves the entries in place
CacheClearNothing(m) == m

\* st.cache_data.clear()
CacheClear(m) == [k \in BOOLEAN |-> NoEntry]

\* history: the entries that exist when the reload button is handled
MarkOld(m) == [k \in BOOLEAN |-> [m[k] EXCEPT !.old = m[k].present]]

\* the cached get_transactions: a fresh entry for the argument is returned
\* without running the body; a returned value (None included) is stored
get_transactions(m, force_reload, db, file, failAt, driveUp, strOnNull) ==
    IF Fresh(m[force_reload])
    THEN [raised |-> FALSE, cause |-> "none", value |-> m[force_reload].value,
          memo |-> m, file |-> file, hit |-> TRUE, old |-> m[force_reload].old,
          remote |-> {}]
    ELSE Only({[raised |-> r.raised, cause |-> r.cause, value |-> r.value,
                memo |-> IF r.raised THEN m ELSE Store(m, force_reload, r.value),
                file |-> r.file, hit |-> FALSE, old |-> FALSE, remote |-> r.remote]
               : r \in {get_transactions_from_notion(force_reload, db, file, failAt, driveUp,
                                                     strOnNull)}})

\* the entry of the calls log for call c
CallLog(c, force_reload, file, driveUp, fresh) ==
    [force |-> force_reload, hit |-> c.hit, old |-> c.old, remote |-> c.remote,
     raised |-> c.raised, value |-> c.value,
     file |-> IF c.hit THEN NoFile ELSE file,
     driveUp |-> ~c.hit /\ driveUp,
     fresh |-> fresh]

RecentLoad == lastLoad.made /\ lastLoad.age < TTL

----------------------------------------------------------------------------
(* Aggregation (main, after the table is loaded) *)

CATEGORY_COLORS ==
    <<(<<"Quotidien">>), (<<"Sorties">>), (<<"Loisirs">>), (<<"Transports">>),
      (<<"Maison">>), (<<"Sante">>), (<<"Dons">>), (<<"Revenus">>), (<<"Taxes">>),
      (<<"Exclus">>)>>

\* the checkboxes that are checked when the page is first drawn
DefaultCategories ==
    {c \in Range(CATEGORY_COLORS) : c \notin {<<"Exclus">>, <<"Taxes">>}}

\* a float cell: num / den, or null
Number(n, d) == [null |-> FALSE, num |-> n, den |-> d]
NullNumber == [null |-> TRUE, num |-> 0, den |-> 1]

Abs(n) == IF n < 0 THEN -n ELSE n

\* polars comparisons with a null operand are null, and filter drops null
Ne(a, b) == a # NULL /\ a # b
Eq(a, b) == a # NULL /\ a = b

RECURSIVE SumMontant(_)
\* pl.col("montant").sum(): 0 over no rows
SumMontant(rows) == IF rows = <<>> THEN 0 ELSE rows[1].montant + SumMontant(Tail(rows))

\* faulty variant: the quarter is smoothed over four months
FacteurLissageQuatre(smooth, p) ==
    IF smooth
    THEN (IF p = "mois" THEN 1 ELSE IF p = "trimestre" THEN 4 ELSE IF p = "annee" THEN 12 ELSE 1)
    ELSE 1

\* facteur_lissage
FacteurLissage(smooth, p) ==
    IF smooth
    THEN (IF p = "mois" THEN 1 ELSE IF p = "trimestre" THEN 3 ELSE IF p = "annee" THEN 12 ELSE 1)
    ELSE 1

\* the category filter: the selected parents, and the rows without a category
RowFilter(rows, selected) ==
    SelectSeq(rows, LAMBDA r : r.categorie_parent \in selected \/ r.categorie_parent = NULL)

\* df_camembert: the rows of the chosen period that are not "Revenus"
Camembert(rows, p, ps) ==
    SelectSeq(SelectSeq(rows, LAMBDA r : Ne(r.categorie_parent, <<"Revenus">>)),
              LAMBDA r : Eq(r[p], ps))

GroupColumn(g) == IF g = "parent" THEN "categorie_parent" ELSE "categorie_enfant"

\* when(sum < 0).then(sum.abs() / facteur_lissage), with no otherwise
BreakdownAmount(total, facteur) ==
    IF total < 0 THEN Number(Abs(total), facteur) ELSE NullNumber

\* df_categories: group_by(categorie-<groupe>).agg(...), one row for each group
Categories(camembert, g, facteur) ==
    {[categorie |-> c,
      montant |-> BreakdownAmount(
                    SumMontant(SelectSeq(camembert, LAMBDA r : r[GroupColumn(g)] = c)),
                    facteur)]
     : c \in {camembert[i][GroupColumn(g)] : i \in 1..Len(camembert)}}

\* order of the period texts of one granularity
PeriodKey(ps) ==
    IndexOf(YearStr, ps[1]) * 100
    + (IF Len(ps) < 3 THEN 0
       ELSE IF ps[3] \in Range(Digit) THEN IndexOf(Digit, ps[3])
       ELSE IndexOf(TwoDigits, ps[3]))

RECURSIVE SortedPeriods(_)
\* the period values of S, ascending
SortedPeriods(S) ==
    IF S = {} THEN <<>>
    ELSE Only({<<m>> \o SortedPeriods(S \ {m})
               : m \in {x \in S : \A y \in S : PeriodKey(x) <= PeriodKey(y)}})

Reverse(seq) == [i \in 1..Len(seq) |-> seq[Len(seq) + 1 - i]]

\* create_sidebar_filters: the options of the "Periode" box, latest first
Periodes(rows, p) == Reverse(SortedPeriods({rows[i][p] : i \in 1..Len(rows)}))

\* faulty variant: the expenses are summed over every row of the period
DepensesAll(rows) == SumMontant(rows)

\* the sums of one period of df_totaux, before smoothing
Depenses(rows) ==
    SumMontant(SelectSeq(rows, LAMBDA r : Ne(r.categorie_parent, <<"Revenus">>)))
Revenus(rows) ==
    SumMontant(SelectSeq(rows, LAMBDA r : Eq(r.categorie_parent, <<"Revenus">>)))
Epargne(rows) == SumMontant(rows)

TotauxRow(rows, p, ps, facteur) ==
    Only({[periode |-> ps,
           depenses |-> Number(Depenses(of), facteur),
           revenus |-> Number(Revenus(of), facteur),
           epargne |-> Number(Epargne(of), facteur)]
          : of \in {SelectSeq(rows, LAMBDA r : r[p] = ps)}})

\* df_totaux: group_by(periode).agg(...).sort(periode)
Totaux(rows, p, facteur) ==
    Only({[i \in 1..Len(keys) |-> TotauxRow(rows, p, keys[i], facteur)]
          : keys \in {SortedPeriods({rows[i][p] : i \in 1..Len(rows)})}})

\* the transactions a table can be made of
Pool ==
    <<[date |-> <<"2024", "-", "01", "-", "05">>, nom |-> "market", categorie |-> <<"Quotidien">>,
       montant |-> -20, description |-> "CB", compte |-> "PERSO"],
      [date |-> <<"2024", "-", "01", "-", "20">>, nom |-> "bakery", categorie |-> <<"Quotidien">>,
       montant |-> -10, description |-> "CB", compte |-> "PERSO"],
      [date |-> <<"2024", "-", "01", "-", "10">>, nom |-> "salary", categorie |-> <<"Revenus">>,
       montant |-> 1000, description |-> "VIR", compte |-> "PERSO"],
      [date |-> <<"2024", "-", "01", "-", "15">>, nom |-> "refund", categorie |-> <<"Loisirs", " > ", "Cinema">>,
       montant |-> 50, description |-> "", compte |-> "JOINT"],
      [date |-> <<"2024", "-", "04", "-", "02">>, nom |-> "cinema", categorie |-> <<"Loisirs", " > ", "Cinema">>,
       montant |-> -50, description |-> "CB", compte |-> "JOINT"],
      [date |-> <<"2024", "-", "01", "-", "31">>, nom |-> "cash", categorie |-> NULL,
       montant |-> -5, description |-> "", compte |-> "PERSO"],
      [date |-> <<"2025", "-", "02", "-", "01">>, nom |-> "tax", categorie |-> <<"Taxes">>,
       montant |-> -300, description |-> "", compte |-> "JOINT"],
      [date |-> <<"2024", "-", "02", "-", "25">>, nom |-> "market", categorie |-> <<"Quotidien", " > ", "Courses">>,
       montant |-> -7, description |-> "CB", compte |-> "JOINT"]>>

\* the tables the dashboard can load: the snapshot of a reload of up to MaxRows
\* transactions of the pool (a table of uncategorised rows only is the snapshot
\* of a reload whose polars gives null)
Tables ==
    {ReadCsv(WriteCsv(preprocess_transactions([i \in 1..Len(ix) |-> Pool[ix[i]]], TRUE).value))
     : ix \in {s \in SeqsNoRep(1..Len(Pool), MaxRows) :
                 Len(s) >= 1 /\ \A i \in 1..(Len(s) - 1) : s[i] < s[i + 1]}}

\* the categories whose checkbox the user toggles
ToggledCategories == {<<"Revenus">>, <<"Taxes">>, <<"Quotidien">>}

\* a script run of main from the sidebar on, with the widgets at the given values
Render(p, ps, g, selected, smooth) ==
    /\ periode' = p
    /\ periode_specifique' = ps
    /\ groupe' = g
    /\ selected_categories' = selected
    /\ lissage' = smooth
    /\ facteur_lissage' = FacteurLissage(smooth, p)
    /\ \E kept \in {RowFilter(df.rows, selected)} :
         /\ df_filtered' = kept
         /\ df_categories' = Categories(Camembert(kept, p, ps), g, FacteurLissage(smooth, p))
         /\ df_totaux' = Totaux(kept, p, FacteurLissage(smooth, p))
    /\ UNCHANGED <<df, ledger, ingestVars, sessionVars, configVars, gateVars>>

\* the aggregation variables while no table is loaded
AggIdle ==
    /\ df = NoneDf
    /\ periode = "mois"
    /\ periode_specifique = NULL
    /\ groupe = "parent"
    /\ selected_categories = DefaultCategories
    /\ lissage = FALSE
    /\ facteur_lissage = 1
    /\ df_filtered = <<>>
    /\ df_categories = {}
    /\ df_totaux = <<>>

----------------------------------------------------------------------------
(* Configuration: the environment, the Streamlit secrets and the module-level *)
(* code of drive.py, notion.py and app.py                                     *)

ConfigNames ==
    {"NOTION_TOKEN", "NOTION_DATABASE_ID", "DRIVE_FOLDER_ID", "gcp_service_account",
     "APP_PASSWORD", "BANK_PERSO_ID", "BANK_JOINT_ID"}

\* app.py run by streamlit, notion.py run as a script
Programs == {"app", "ingestion"}

\* every value is set
FullEnv == [k \in ConfigNames |-> TRUE]

\* import drive: "if not DRIVE_FOLDER_ID: raise ValueError"
ImportDrive(e) == IF ~e["DRIVE_FOLDER_ID"] THEN "ValueError" ELSE "ok"

\* the module-level code of notion.py: import drive, then the test of the token
\* and of the database id; BANK_ID is built and not tested
ImportNotion(e) ==
    IF ImportDrive(e) # "ok" THEN ImportDrive(e)
    ELSE IF ~e["NOTION_TOKEN"] \/ ~e["NOTION_DATABASE_ID"] THEN "ValueError"
    ELSE "ok"

\* the module-level code of app.py: import notion (and drive), then the test of
\* APP_PASSWORD
ImportApp(e) ==
    IF ImportNotion(e) # "ok" THEN ImportNotion(e)
    ELSE IF ~e["APP_PASSWORD"] THEN "ValueError"
    ELSE "ok"

\* an exception at module level ends the program
StartupOutcome(result) == IF result = "ok" THEN "running" ELSE "fatal"

\* BANK_ID: the environment value of each account
BANK_ID(compte) == IF compte = "PERSO" THEN "BANK_PERSO_ID" ELSE "BANK_JOINT_ID"

\* subprocess.run of woob for one account.  Without the account's identifier the
\* argument list holds None (TypeError, caught by the except of
\* get_transactions_from_woob) or an empty text (woob fails): [] is returned
\* either way, as for a non-zero return code
WoobResults(e, compte) ==
    IF e[BANK_ID(compte)] THEN SubprocessResults(compte)
    ELSE {[returncode |-> 1, stdout |-> <<>>]}

\* the first account whose identifier get_transactions_from_woob finds missing
MissingBankId(e) ==
    IF ~e[BANK_ID(COMPTES[1])] THEN {BANK_ID(COMPTES[1])}
    ELSE IF ~e[BANK_ID(COMPTES[2])] THEN {BANK_ID(COMPTES[2])}
    ELSE {}

\* get_google_drive_service: the service, or None (FALSE) when the secrets hold
\* no service account (KeyError, caught)
get_google_drive_service(e) == e["gcp_service_account"]

\* can the Drive calls of one function succeed
DriveOutcomes(e) == {up \in BOOLEAN : up => get_google_drive_service(e)}

\* the configuration value a Drive call finds missing
MissingDriveSecret(e) == IF get_google_drive_service(e) THEN {} ELSE {"gcp_service_account"}

----------------------------------------------------------------------------
(* The password gate (check_password) *)

\* the configured password
APP_PASSWORD == <<"s", "3", "c">>

\* the texts a user types: the password, the password followed by a space, and
\* the password in another case
Passwords == {APP_PASSWORD, <<"s", "3", "c", " ">>, <<"S", "3", "c">>}

\* st.session_state of a new session: no key
NewSessionState == [password_correct |-> "absent", password |-> NULL]

\* the text in the password field
WidgetValue(ss) == IF ss.password = NULL THEN <<>> ELSE ss.password

\* faulty variant: the configured password need only start the text typed
password_entered_startswith(ss, text) ==
    IF Len(text) >= Len(APP_PASSWORD) /\ SubSeq(text, 1, Len(APP_PASSWORD)) = APP_PASSWORD
    THEN [password_correct |-> "True", password |-> NULL]
    ELSE [password_correct |-> "False", password |-> text]

\* the on_change callback of the password field, the field holding text
password_entered(ss, text) ==
    IF text = APP_PASSWORD
    THEN [password_correct |-> "True", password |-> NULL]
    ELSE [password_correct |-> "False", password |-> text]

\* check_password: False (and the field is drawn) unless the flag is set and true
check_password(ss) ==
    IF ss.password_correct = "absent" THEN FALSE
    ELSE IF ss.password_correct # "True" THEN FALSE
    ELSE TRUE

----------------------------------------------------------------------------
(* Initial state *)

\* a page ingested earlier and categorised by the user in Notion
PageB ==
    [Date |-> <<"2024", "-", "01", "-", "20">>, Nom |-> <<"shop">>,
     Categorie |-> <<"Quotidien", " > ", "Courses">>, Montant |-> -10,
     Description |-> <<"CB shop">>, ID |-> <<(<<"B">>)>>, Compte |-> "PERSO"]

\* a page typed by hand in Notion: no transaction id, no description
PageManual ==
    [Date |-> <<"2023", "-", "12", "-", "31">>, Nom |-> <<"cash">>,
     Categorie |-> NULL, Montant |-> -5,
     Description |-> <<>>, ID |-> <<>>, Compte |-> "PERSO"]

InitLedgers == {<<>>, <<PageB>>, <<PageB, PageManual>>}

\* the snapshot an earlier reload of <<PageB>> wrote
OldSnapshot == WriteCsv(preprocess_transactions(<<PageTransaction(PageB)>>, TRUE).value)

NoReload == [status |-> "none", cause |-> "none", value |-> NoneDf, pages |-> 0]

Init ==
    /\ ledger \in InitLedgers
    /\ pcI = "idle"
    /\ transactions = <<>>
    /\ existing_ids = {}
    /\ new_transactions = <<>>
    /\ idx = 1
    /\ success = 0
    /\ attempts = <<>>
    /\ ret = [success |-> 0]
    /\ drive \in {NoFile, OldSnapshot}
    /\ memo = [k \in BOOLEAN |-> NoEntry]
    /\ ready = FALSE
    /\ rerun = FALSE
    /\ calls = <<>>
    /\ reload = NoReload
    /\ lastLoad = [made |-> FALSE, age |-> 0]
    /\ AggIdle
    /\ env = FullEnv
    /\ started = [p \in Programs |-> "running"]
    /\ runtime = {}
    /\ session_state = NewSessionState
    /\ submitted = NULL

----------------------------------------------------------------------------
(* The ingestion script: notion.py run as __main__ *)

\* transactions = get_transactions_from_woob()
GetTransactionsFromWoob ==
    /\ started["ingestion"] = "running"
    /\ pcI \in {"idle", "done"}
    /\ \E rp \in WoobResults(env, "PERSO"), rj \in WoobResults(env, "JOINT") :
         \E txs \in {get_transactions_from_woob(
                        [c \in Range(COMPTES) |-> IF c = "PERSO" THEN rp ELSE rj])} :
            /\ Len(ledger) + Len(txs) <= MaxLedger
            /\ transactions' = txs
    /\ pcI' = "fetched"
    /\ existing_ids' = {}
    /\ new_transactions' = <<>>
    /\ idx' = 1
    /\ success' = 0
    /\ attempts' = <<>>
    /\ ret' = [success |-> 0]
    /\ runtime' = runtime \cup MissingBankId(env)
    /\ UNCHANGED <<ledger, sessionVars, aggVars, env, started, gateVars>>

\* send_transactions_to_notion up to the for loop; a query that raises ends the
\* script (nothing catches it)
SendStart ==
    /\ pcI = "fetched"
    /\ \E failAt \in 0..NumQueries(ledger) :
         \E r \in {get_existing_transaction_ids(ledger, failAt)} :
            IF r.raised
            THEN /\ pcI' = "idle"
                 /\ transactions' = <<>>
                 /\ UNCHANGED <<existing_ids, new_transactions>>
            ELSE /\ pcI' = "sending"
                 /\ existing_ids' = r.value
                 /\ new_transactions' = NewTransactions(transactions, r.value)
                 /\ UNCHANGED transactions
    /\ UNCHANGED <<ledger, idx, success, attempts, ret, sessionVars, aggVars,
                   configVars, gateVars>>

\* one iteration of the for loop: send_transaction_to_notion(tx), which returns
\* the response, or None when pages.create raised
SendOne ==
    /\ pcI = "sending"
    /\ idx <= Len(new_transactions)
    /\ \E created \in BOOLEAN :
         LET tx == new_transactions[idx]
         IN /\ ledger' = IF created THEN Append(ledger, CreatedPage(tx)) ELSE ledger
            /\ attempts' = Append(attempts, [tx |-> tx, created |-> created])
            /\ success' = SuccessAfter(success, created)
            /\ idx' = IdxAfter(idx, created, Len(new_transactions))
    /\ UNCHANGED <<pcI, transactions, existing_ids, new_transactions, ret, sessionVars,
                   aggVars, configVars, gateVars>>

\* return {"success": success}
SendFinish ==
    /\ pcI = "sending"
    /\ idx > Len(new_transactions)
    /\ ret' = [success |-> success]
    /\ pcI' = "done"
    /\ UNCHANGED <<ledger, transactions, existing_ids, new_transactions, idx, success,
                   attempts, sessionVars, aggVars, configVars, gateVars>>

----------------------------------------------------------------------------
(* The dashboard: one run of app.py's main *)

AgeEntry(e) == IF e.present THEN [e EXCEPT !.age = Min(@ + TickStep, TTL)] ELSE e

\* time passes
Tick ==
    /\ ~rerun
    /\ memo' = [k \in BOOLEAN |-> AgeEntry(memo[k])]
    /\ lastLoad' = IF lastLoad.made
                   THEN [lastLoad EXCEPT !.age = Min(@ + TickStep, TTL)]
                   ELSE lastLoad
    /\ UNCHANGED <<ledger, ingestVars, drive, ready, rerun, calls, reload, aggVars,
                   configVars, gateVars>>

\* main past the password gate, without a click on the reload button:
\* df = get_transactions(), then the error and st.stop() when df is None, the
\* sidebar otherwise
MainBody ==
    /\ \E driveUp \in DriveOutcomes(env) :
         \E c \in {get_transactions(memo, FALSE, ledger, drive, 0, driveUp, TRUE)} :
            /\ memo' = c.memo
            /\ calls' = <<CallLog(c, FALSE, drive, driveUp, RecentLoad)>>
            /\ ready' = (c.value.kind # "None")
            /\ lastLoad' = IF c.hit THEN lastLoad ELSE [made |-> TRUE, age |-> 0]
            /\ runtime' = runtime \cup (IF c.hit THEN {} ELSE MissingDriveSecret(env))
    /\ rerun' = FALSE
    /\ UNCHANGED <<ledger, ingestVars, drive, reload, aggVars, env, started>>

\* a script run of a session whose password was accepted; check_password stops
\* every other run before anything is fetched or drawn
MainRun ==
    /\ started["app"] = "running"
    /\ check_password(session_state)
    /\ MainBody
    /\ UNCHANGED gateVars

\* the user types a text in the password field: the on_change callback, then
\* the script run, which stops at check_password unless the flag is now true
SubmitPassword ==
    /\ started["app"] = "running"
    /\ ~check_password(session_state)
    /\ \E text \in Passwords \ {WidgetValue(session_state)} :
         \E ss \in {password_entered(session_state, text)} :
            /\ session_state' = ss
            /\ submitted' = text
            /\ IF check_password(ss)
               THEN MainBody
               ELSE UNCHANGED <<ledger, ingestVars, sessionVars, aggVars, configVars>>

\* a script run with the reload button clicked: main as above, then in
\* create_sidebar_filters the cache clear, get_transactions(force_reload=True)
\* and st.rerun()
ReloadClick ==
    /\ started["app"] = "running"
    /\ check_password(session_state)
    /\ ready
    /\ ~rerun
    /\ \E driveUp1 \in DriveOutcomes(env), driveUp2 \in DriveOutcomes(env),
          failAt \in 0..NumQueries(ledger), strOnNull \in StrOnNullOutcomes(ledger) :
         \E c1 \in {get_transactions(memo, FALSE, ledger, drive, 0, driveUp1, TRUE)} :
         \E c2 \in {get_transactions(CacheClear(MarkOld(c1.memo)), TRUE, ledger, drive,
                                     failAt, driveUp2, strOnNull)} :
         LET log1 == CallLog(c1, FALSE, drive, driveUp1, RecentLoad)
             log2 == CallLog(c2, TRUE, drive, driveUp2, FALSE)
         IN IF c1.value.kind = "None"
            THEN /\ memo' = c1.memo
                 /\ calls' = <<log1>>
                 /\ ready' = FALSE
                 /\ rerun' = FALSE
                 /\ lastLoad' = IF c1.hit THEN lastLoad ELSE [made |-> TRUE, age |-> 0]
                 /\ runtime' = runtime \cup (IF c1.hit THEN {} ELSE MissingDriveSecret(env))
                 /\ UNCHANGED <<drive, reload>>
            ELSE /\ memo' = c2.memo
                 /\ calls' = <<log1, log2>>
                 /\ drive' = c2.file
                 /\ reload' = [status |-> IF c2.raised THEN "raised" ELSE "returned",
                               cause |-> c2.cause, value |-> c2.value,
                               pages |-> Len(ledger)]
                 /\ ready' = TRUE
                 /\ rerun' = ~c2.raised
                 /\ lastLoad' = [made |-> FALSE, age |-> 0]
                 /\ runtime' = runtime \cup (IF c1.hit /\ c2.raised THEN {}
                                             ELSE MissingDriveSecret(env))
    /\ UNCHANGED <<ledger, ingestVars, aggVars, env, started, gateVars>>

----------------------------------------------------------------------------

Next ==
    \/ GetTransactionsFromWoob
    \/ SendStart
    \/ SendOne
    \/ SendFinish
    \/ Tick
    \/ SubmitPassword
    \/ MainRun
    \/ ReloadClick

Spec == Init /\ [][Next]_vars

----------------------------------------------------------------------------
(* Properties of the ingestion script *)

TransactionId(page) == page.ID[1]

\* C1: no two pages of the Notion database carry the same transaction id,
\* whatever batches the ingestion script was given.
C1_UniqueExternalIds ==
    \A i, j \in 1..Len(ledger) :
        (i # j /\ ledger[i].ID # <<>> /\ ledger[j].ID # <<>>)
            => TransactionId(ledger[i]) # TransactionId(ledger[j])

\* C2: a create call is issued only for a record whose id is not in the set of
\* ids read from Notion at the start of the run.
C2_CreateOnlyIfNotExisting ==
    \A i \in 1..Len(attempts) : attempts[i].tx.id \notin existing_ids

\* a finished run whose batch held a record already in Notion and a new one
C2_Witness ==
    /\ pcI = "done"
    /\ \E i \in 1..Len(transactions) : transactions[i].id \in existing_ids
    /\ \E i \in 1..Len(transactions) : transactions[i].id \notin existing_ids
    /\ attempts # <<>>

\* C10: a failed create does not stop the run: the create calls of a run are the
\* new records, each once and in order, and the count returned is the number of
\* creates that succeeded.
C10_ContinuesPastFailures ==
    /\ pcI = "sending" =>
         /\ Len(attempts) = idx - 1
         /\ \A i \in 1..Len(attempts) : attempts[i].tx = new_transactions[i]
    /\ pcI = "done" =>
         /\ [i \in 1..Len(attempts) |-> attempts[i].tx] = new_transactions
         /\ ret.success = Cardinality({i \in 1..Len(attempts) : attempts[i].created})

\* a finished run whose first create failed and whose second succeeded
C10_Witness ==
    /\ pcI = "done"
    /\ Len(attempts) >= 2
    /\ ~attempts[1].created
    /\ attempts[2].created
    /\ ret.success = 1

----------------------------------------------------------------------------
(* Properties of the dashboard's data access *)

\* C3: a forced reload that meets a network error on a page query does not
\* raise: the error is caught, and None is returned.
C3_NetworkErrorReturnsNone ==
    reload.cause = "network" => (reload.status = "returned" /\ reload.value = NoneDf)

PlainMisses == {i \in 1..Len(calls) : ~calls[i].force /\ ~calls[i].hit}

NeverQueriesLedger == \A i \in PlainMisses : "ledger" \notin calls[i].remote

\* a None from get_transactions() ends the script run: no sidebar, no reload
StopsOnNone ==
    (calls # <<>> /\ calls[1].value.kind = "None") => (~ready /\ Len(calls) = 1)

\* C4 as stated: a non-forced read never queries Notion, returns the snapshot
\* whenever one exists and None when none does, and main stops on None.
C4_SnapshotWheneverItExists ==
    /\ NeverQueriesLedger
    /\ \A i \in PlainMisses :
         calls[i].value = IF calls[i].file.exists THEN ReadCsv(calls[i].file) ELSE NoneDf
    /\ StopsOnNone

\* C4, amended: a non-forced read never queries Notion; it returns the snapshot
\* when one exists and Drive answers, None when there is no snapshot or Drive
\* fails; main stops on None.
C4_SnapshotOrNone ==
    /\ NeverQueriesLedger
    /\ \A i \in PlainMisses :
         calls[i].value = IF calls[i].file.exists /\ calls[i].driveUp
                          THEN ReadCsv(calls[i].file)
                          ELSE NoneDf
    /\ StopsOnNone

\* a run that found no snapshot although Notion holds pages, and stopped
C4_Witness ==
    /\ Len(calls) = 1
    /\ ~calls[1].hit
    /\ calls[1].driveUp
    /\ ~calls[1].file.exists
    /\ calls[1].value = NoneDf
    /\ Len(ledger) > 0
    /\ ~ready

\* C5: when a forced reload returned a table, the snapshot on Drive is that
\* table.
C5_ReloadOverwritesSnapshot ==
    reload.status = "returned" => drive = WriteCsv(reload.value)

\* C6: no get_transactions call returns an entry stored before the last cache
\* clear, and a non-forced call made less than TTL after the body last ran, with
\* no reload click in between, is a hit that calls no remote service.
C6_MemoInvalidatedByReload ==
    \A i \in 1..Len(calls) :
        /\ calls[i].hit => ~calls[i].old
        /\ (~calls[i].force /\ calls[i].fresh) => (calls[i].hit /\ calls[i].remote = {})

\* after a reload click and its rerun, a later run is served from the memo
C6_Witness ==
    /\ reload.status = "returned"
    /\ ~rerun
    /\ Len(calls) = 1
    /\ calls[1].hit
    /\ calls[1].fresh

\* C15: a forced reload of a database that holds pages, and whose queries all
\* answer, does not raise and returns a table with one row for each page,
\* whatever optional fields the pages leave empty.
C15_ReloadToleratesEmptyFields ==
    (reload.status # "none" /\ reload.cause # "network" /\ reload.pages > 0) =>
        /\ reload.status = "returned"
        /\ Len(reload.value.rows) = reload.pages

----------------------------------------------------------------------------
(* The dashboard's aggregation, for every table and every widget setting *)

\* a table is loaded and the page is not drawn yet
InitAgg ==
    /\ ledger = <<>>
    /\ pcI = "idle"
    /\ transactions = <<>>
    /\ existing_ids = {}
    /\ new_transactions = <<>>
    /\ idx = 1
    /\ success = 0
    /\ attempts = <<>>
    /\ ret = [success |-> 0]
    /\ drive = NoFile
    /\ memo = [k \in BOOLEAN |-> NoEntry]
    /\ ready = TRUE
    /\ rerun = FALSE
    /\ calls = <<>>
    /\ reload = NoReload
    /\ lastLoad = [made |-> FALSE, age |-> 0]
    /\ df \in Tables
    /\ periode = "mois"
    /\ periode_specifique = NULL
    /\ groupe = "parent"
    /\ selected_categories = DefaultCategories
    /\ lissage = FALSE
    /\ facteur_lissage = 1
    /\ df_filtered = <<>>
    /\ df_categories = {}
    /\ df_totaux = <<>>
    /\ env = FullEnv
    /\ started = [p \in Programs |-> "running"]
    /\ runtime = {}
    /\ session_state = password_entered(NewSessionState, APP_PASSWORD)
    /\ submitted = APP_PASSWORD

Drawn == periode_specifique # NULL

\* the first script run over the table: every widget at its default value
FirstRun ==
    /\ ~Drawn
    /\ Render("mois", Periodes(df.rows, "mois")[1], "parent", DefaultCategories, FALSE)

\* the user picks another granularity; the "Periode" box, whose options change,
\* falls back to its first option
SelectPeriode ==
    /\ Drawn
    /\ \E p \in {"mois", "trimestre", "annee"} \ {periode} :
         Render(p, Periodes(df.rows, p)[1], groupe, selected_categories, lissage)

SelectPeriodeSpecifique ==
    /\ Drawn
    /\ \E ps \in Range(Periodes(df.rows, periode)) \ {periode_specifique} :
         Render(periode, ps, groupe, selected_categories, lissage)

ToggleLissage ==
    /\ Drawn
    /\ Render(periode, periode_specifique, groupe, selected_categories, ~lissage)

SelectGroupe ==
    /\ Drawn
    /\ \E g \in {"parent", "enfant"} \ {groupe} :
         Render(periode, periode_specifique, g, selected_categories, lissage)

ToggleCategory ==
    /\ Drawn
    /\ \E c \in ToggledCategories :
         Render(periode, periode_specifique, groupe,
                IF c \in selected_categories
                THEN selected_categories \ {c}
                ELSE selected_categories \cup {c},
                lissage)

NextAgg ==
    \/ FirstRun
    \/ SelectPeriode
    \/ SelectPeriodeSpecifique
    \/ ToggleLissage
    \/ SelectGroupe
    \/ ToggleCategory

SpecAgg == InitAgg /\ [][NextAgg]_vars

----------------------------------------------------------------------------
(* Properties of the aggregation *)

RECURSIVE SumOver(_)
\* the sum of the amounts of the rows of df_filtered at the indices K
SumOver(K) ==
    IF K = {} THEN 0
    ELSE Only({df_filtered[k].montant + SumOver(K \ {k}) : k \in {CHOOSE x \in K : TRUE}})

\* the divisor the specification gives
ExpectedDivisor ==
    IF ~lissage THEN 1
    ELSE CASE periode = "mois" -> 1
           [] periode = "trimestre" -> 3
           [] periode = "annee" -> 12

\* indices of the rows of the breakdown's group c
GroupRows(c) ==
    {k \in 1..Len(df_filtered) :
        /\ df_filtered[k].categorie_parent # NULL
        /\ df_filtered[k].categorie_parent # <<"Revenus">>
        /\ df_filtered[k][periode] = periode_specifique
        /\ df_filtered[k][GroupColumn(groupe)] = c}

BreakdownGroups ==
    {df_filtered[k][GroupColumn(groupe)] : k \in
        {j \in 1..Len(df_filtered) : 
            /\ df_filtered[j].categorie_parent # NULL
            /\ df_filtered[j].categorie_parent # <<"Revenus">>
            /\ df_filtered[j][periode] = periode_specifique}}

\* C7: a group of the breakdown whose signed sum is not negative has no row in
\* the result, and a group whose sum is negative has a row whose amount is the
\* absolute value of the sum over the smoothing divisor.
C7_NonNegativeGroupsAbsent ==
    \A c \in BreakdownGroups :
        IF SumOver(GroupRows(c)) >= 0
        THEN ~\E row \in df_categories : row.categorie = c
        ELSE \E row \in df_categories :
                /\ row.categorie = c
                /\ row.montant = Number(Abs(SumOver(GroupRows(c))), ExpectedDivisor)

PeriodRows(ps) == {k \in 1..Len(df_filtered) : df_filtered[k][periode] = ps}

AllCategorised == \A k \in 1..Len(df_filtered) : df_filtered[k].categorie # NULL

\* C8: when every row of the filtered table has a category, the period totals
\* have exactly one row for each period value of the filtered table, holding the
\* sum of the amounts outside "Revenus", the sum of the amounts of "Revenus" and
\* the sum of all amounts of the period, each over the smoothing divisor.
C8_PeriodTotals ==
    AllCategorised =>
        /\ {df_totaux[i].periode : i \in 1..Len(df_totaux)}
             = {df_filtered[k][periode] : k \in 1..Len(df_filtered)}
        /\ Len(df_totaux) = Cardinality({df_filtered[k][periode] : k \in 1..Len(df_filtered)})
        /\ \A i \in 1..Len(df_totaux) :
             /\ df_totaux[i].depenses =
                  Number(SumOver({k \in PeriodRows(df_totaux[i].periode) :
                                    df_filtered[k].categorie_parent # <<"Revenus">>}),
                         ExpectedDivisor)
             /\ df_totaux[i].revenus =
                  Number(SumOver({k \in PeriodRows(df_totaux[i].periode) :
                                    df_filtered[k].categorie_parent = <<"Revenus">>}),
                         ExpectedDivisor)
             /\ df_totaux[i].epargne =
                  Number(SumOver(PeriodRows(df_totaux[i].periode)), ExpectedDivisor)

\* the example: -20 and -10 of "Quotidien" and +1000 of "Revenus" in 2024-01,
\* by month and unsmoothed
C8_Witness ==
    /\ Drawn
    /\ Len(df.rows) = 3
    /\ Len(df_filtered) = 3
    /\ AllCategorised
    /\ periode = "mois"
    /\ ~lissage
    /\ df_totaux = <<[periode |-> <<"2024", "-", "01">>, depenses |-> Number(-30, 1),
                      revenus |-> Number(1000, 1), epargne |-> Number(970, 1)]>>

\* C9: the divisor is 1 without smoothing and 1, 3 and 12 for month, quarter and
\* year with it, and every value of the totals and of the breakdown is the
\* unsmoothed value over that divisor.
C9_SmoothingDivisor ==
    /\ facteur_lissage = ExpectedDivisor
    /\ Len(df_totaux) = Len(Totaux(df_filtered, periode, 1))
    /\ \A i \in 1..Len(df_totaux) :
         \E raw \in {Totaux(df_filtered, periode, 1)[i]} :
            /\ df_totaux[i].depenses = Number(raw.depenses.num, ExpectedDivisor)
            /\ df_totaux[i].revenus = Number(raw.revenus.num, ExpectedDivisor)
            /\ df_totaux[i].epargne = Number(raw.epargne.num, ExpectedDivisor)
    /\ \A row \in df_categories :
         ~row.montant.null =>
            \E raw \in Categories(Camembert(df_filtered, periode, periode_specifique),
                                  groupe, 1) :
               /\ raw.categorie = row.categorie
               /\ row.montant = Number(raw.montant.num, ExpectedDivisor)

\* the year 2024 smoothed: -30 of expenses over 12, and a breakdown value over 12
C9_Witness ==
    /\ lissage
    /\ periode = "annee"
    /\ Len(df_totaux) = 1
    /\ df_totaux[1].depenses = Number(-30, 12)
    /\ \E row \in df_categories : row.montant = Number(30, 12)

\* C16: in every row of the period totals, the savings are the income plus the
\* expenses, also when the filtered table holds rows without a category.
C16_SavingsIsIncomePlusExpenses ==
    \A i \in 1..Len(df_totaux) :
        /\ df_totaux[i].epargne.den = df_totaux[i].revenus.den
        /\ df_totaux[i].epargne.den = df_totaux[i].depenses.den
        /\ df_totaux[i].epargne.num = df_totaux[i].revenus.num + df_totaux[i].depenses.num

----------------------------------------------------------------------------
(* Normalisation, for every date and every category *)

\* the dates given to preprocess_transactions: the first, a middle and the last
\* days of every month of two years, and texts that name no day of the calendar
NormDates ==
    {<<y, "-", m, "-", d>> : y \in {"2024", "2025"},
                            m \in Range(SubSeq(TwoDigits, 1, 13)),
                            d \in {"01", "15", "28", "29", "30", "31"}}

\* the categories: none, one level, two and three levels, and the empty text
NormCategories ==
    {NULL, <<"Loisirs">>, <<"Loisirs", " > ", "Cinema">>,
     <<"Maison", " > ", "Travaux", " > ", "Toit">>, <<>>}

NormTransaction(date, categorie) ==
    [date |-> date, nom |-> "shop", categorie |-> categorie, montant |-> -10,
     description |-> "CB", compte |-> "PERSO"]

\* a list of one transaction, or of one transaction and a categorised one
InitNorm ==
    /\ ledger = <<>>
    /\ pcI = "idle"
    /\ \E date \in NormDates, categorie \in NormCategories :
         transactions \in {<<NormTransaction(date, categorie)>>,
                           <<NormTransaction(date, categorie), Pool[4]>>}
    /\ existing_ids = {}
    /\ new_transactions = <<>>
    /\ idx = 1
    /\ success = 0
    /\ attempts = <<>>
    /\ ret = [success |-> 0]
    /\ drive = NoFile
    /\ memo = [k \in BOOLEAN |-> NoEntry]
    /\ ready = FALSE
    /\ rerun = FALSE
    /\ calls = <<>>
    /\ reload = NoReload
    /\ lastLoad = [made |-> FALSE, age |-> 0]
    /\ AggIdle
    /\ env = FullEnv
    /\ started = [p \in Programs |-> "running"]
    /\ runtime = {}
    /\ session_state = password_entered(NewSessionState, APP_PASSWORD)
    /\ submitted = APP_PASSWORD

\* df = preprocess_transactions(transactions); nothing is assigned when it raises
Preprocess ==
    /\ df = NoneDf
    /\ \E strOnNull \in BOOLEAN :
         \E p \in {preprocess_transactions(transactions, strOnNull)} :
            /\ ~p.raised
            /\ df' = p.value
    /\ UNCHANGED <<ledger, ingestVars, sessionVars, periode, periode_specifique, lissage,
                   groupe, selected_categories, facteur_lissage, df_filtered,
                   df_categories, df_totaux, configVars, gateVars>>

NextNorm == Preprocess

SpecNorm == InitNorm /\ [][NextNorm]_vars

\* the quarter of the calendar of a month
CalendarQuarter(month) ==
    CASE month \in {"01", "02", "03"} -> "1"
      [] month \in {"04", "05", "06"} -> "2"
      [] month \in {"07", "08", "09"} -> "3"
      [] month \in {"10", "11", "12"} -> "4"

\* C13: every row of a normalised table has for month the "YYYY-MM" of its
\* date, for quarter "YYYY-Tn" with n the quarter of the calendar, and for year
\* "YYYY".
C13_DateBuckets ==
    df.kind = "df" =>
        \A i \in 1..Len(df.rows) :
            /\ df.rows[i].mois = <<df.rows[i].date[1], "-", df.rows[i].date[3]>>
            /\ df.rows[i].trimestre =
                 <<df.rows[i].date[1], "-T", CalendarQuarter(df.rows[i].date[3])>>
            /\ df.rows[i].annee = <<df.rows[i].date[1]>>

\* the example: 2024-03-15 gives 2024-03, 2024-T1 and 2024
C13_Witness ==
    /\ df.kind = "df"
    /\ \E i \in 1..Len(df.rows) :
         /\ df.rows[i].date = <<"2024", "-", "03", "-", "15">>
         /\ df.rows[i].mois = <<"2024", "-", "03">>
         /\ df.rows[i].trimestre = <<"2024", "-T", "1">>
         /\ df.rows[i].annee = <<"2024">>

\* positions of the separator in a category
Separators(categorie) == {i \in 1..Len(categorie) : categorie[i] = " > "}

TextBeforeFirst(categorie) ==
    IF Separators(categorie) = {} THEN categorie
    ELSE SubSeq(categorie, 1,
                (CHOOSE i \in Separators(categorie) :
                    \A j \in Separators(categorie) : i <= j) - 1)

TextAfterLast(categorie) ==
    IF Separators(categorie) = {} THEN categorie
    ELSE SubSeq(categorie,
                (CHOOSE i \in Separators(categorie) :
                    \A j \in Separators(categorie) : i >= j) + 1,
                Len(categorie))

\* C14: every row of a normalised table has for parent the text of its category
\* before the first separator and for child the text after the last one, both
\* the whole category when it has no separator and both null when it has no
\* category.
C14_CategoryLevels ==
    df.kind = "df" =>
        \A i \in 1..Len(df.rows) :
            IF df.rows[i].categorie = NULL
            THEN /\ df.rows[i].categorie_parent = NULL
                 /\ df.rows[i].categorie_enfant = NULL
            ELSE /\ df.rows[i].categorie_parent = TextBeforeFirst(df.rows[i].categorie)
                 /\ df.rows[i].categorie_enfant = TextAfterLast(df.rows[i].categorie)

\* a table with a row without category next to the row of "Loisirs > Cinema"
C14_Witness ==
    /\ df.kind = "df"
    /\ Len(df.rows) = 2
    /\ \E i \in 1..Len(df.rows) :
         /\ df.rows[i].categorie = NULL
         /\ df.rows[i].categorie_parent = NULL
         /\ df.rows[i].categorie_enfant = NULL
    /\ \E i \in 1..Len(df.rows) :
         /\ df.rows[i].categorie = <<"Loisirs", " > ", "Cinema">>
         /\ df.rows[i].categorie_parent = <<"Loisirs">>
         /\ df.rows[i].categorie_enfant = <<"Cinema">>

----------------------------------------------------------------------------
(* Startup: the programs under every configuration *)

\* nothing is started; any of the configuration values can be missing
InitStartup ==
    /\ ledger = <<>>
    /\ pcI = "idle"
    /\ transactions = <<>>
    /\ existing_ids = {}
    /\ new_transactions = <<>>
    /\ idx = 1
    /\ success = 0
    /\ attempts = <<>>
    /\ ret = [success |-> 0]
    /\ drive = OldSnapshot
    /\ memo = [k \in BOOLEAN |-> NoEntry]
    /\ ready = FALSE
    /\ rerun = FALSE
    /\ calls = <<>>
    /\ reload = NoReload
    /\ lastLoad = [made |-> FALSE, age |-> 0]
    /\ AggIdle
    /\ env \in [ConfigNames -> BOOLEAN]
    /\ started = [p \in Programs |-> "off"]
    /\ runtime = {}
    /\ session_state = NewSessionState
    /\ submitted = NULL

\* streamlit runs app.py: its module-level code
StartApp ==
    /\ started["app"] = "off"
    /\ started' = [started EXCEPT !["app"] = StartupOutcome(ImportApp(env))]
    /\ UNCHANGED <<ledger, ingestVars, sessionVars, aggVars, env, runtime, gateVars>>

\* python notion.py: its module-level code
StartIngestion ==
    /\ started["ingestion"] = "off"
    /\ started' = [started EXCEPT !["ingestion"] = StartupOutcome(ImportNotion(env))]
    /\ UNCHANGED <<ledger, ingestVars, sessionVars, aggVars, env, runtime, gateVars>>

NextStartup ==
    \/ StartApp
    \/ StartIngestion
    \/ GetTransactionsFromWoob
    \/ SubmitPassword
    \/ MainRun

SpecStartup == InitStartup /\ [][NextStartup]_vars

\* the configuration values a program uses
Mandatory(program) ==
    IF program = "app"
    THEN {"NOTION_TOKEN", "NOTION_DATABASE_ID", "DRIVE_FOLDER_ID", "gcp_service_account",
          "APP_PASSWORD"}
    ELSE {"NOTION_TOKEN", "NOTION_DATABASE_ID", "BANK_PERSO_ID", "BANK_JOINT_ID"}

\* C11: a program whose module-level code completed has every configuration
\* value it uses, and no configuration value is found missing after startup.
C11_MissingConfigFatalAtStartup ==
    /\ \A program \in Programs :
         started[program] = "running" => \A k \in Mandatory(program) : env[k]
    /\ runtime = {}

----------------------------------------------------------------------------
(* Properties of the password gate *)

\* C12: transactions are fetched and the page is drawn only in a session whose
\* password_correct flag is true, and the flag is true only when the text last
\* submitted is exactly the configured password.
C12_PasswordGatesContent ==
    /\ (calls # <<>> \/ ready \/ rerun \/ df # NoneDf)
         => session_state.password_correct = "True"
    /\ session_state.password_correct = "True" => submitted = APP_PASSWORD

\* a session that typed the password, whose run then fetched the table and drew
\* the page
C12_Witness ==
    /\ session_state.password_correct = "True"
    /\ submitted = APP_PASSWORD
    /\ calls # <<>>
    /\ ready

====
